---- MODULE Spec2Model ----
(***************************************************************************)
(* A model of the FINOS Waltz charm (src/src/charm.py): the stored state   *)
(* written by the PostgreSQL relation hooks, the static configuration, the *)
(* Pebble plan of the "waltz" container, and the five event handlers of    *)
(* WaltzOperatorCharm with the events they defer.                          *)
(*                                                                         *)
(* Python values are modelled as strings: None is the string None below,   *)
(* the empty string is "", and both are falsy as in Python.                *)
(***************************************************************************)
EXTENDS FiniteSets, Naturals, Sequences, TLC

VARIABLES
    state,       \* self._state (framework.StoredState)
    config,      \* self.config, the static configuration
    status,      \* self.unit.status
    plan,        \* container.get_plan().services of the "waltz" container
    can_connect, \* what container.can_connect() returns now
    deferred,    \* the events on which event.defer() was called, not yet redelivered
    requested,   \* event.database as left by the relation-joined handler
    db_config,   \* the local db_config of the last _rebuild_waltz_pebble_layer / resolution
    calls,       \* the calls made on the container and on the event by the last handler
    lastEvent    \* the event the last handler ran for

vars == <<state, config, status, plan, can_connect, deferred, requested,
          db_config, calls, lastEvent>>

-----------------------------------------------------------------------------
(* Bounds and value sets *)

\* The most events that may be waiting for redelivery at once.
MaxDeferred == 2

None == "None"
Unset == "Unset"

Truthy(v) == v \notin {None, Unset, ""}

ConfigKeys == {"db-host", "db-port", "db-name", "db-username", "db-password"}

\* Every static configuration: each option is either empty or set.
AllStaticConfigs ==
    { ("db-host" :> h) @@ ("db-port" :> p) @@ ("db-name" :> n)
        @@ ("db-username" :> u) @@ ("db-password" :> w) :
        <<h, p, n, u, w>> \in {"", "foo.lish"} \X {"", "5432"} \X {"", "waltzdb"}
                                \X {"", "u"} \X {"", "p"} }

\* The static configurations the operator chooses among while events are
\* handled: db-host and db-name are either empty or set, the other three
\* options keep their values.
StaticConfigs ==
    { cfg \in AllStaticConfigs :
        cfg["db-port"] = "5432" /\ cfg["db-username"] = "u" /\ cfg["db-password"] = "p" }

\* The database names a master-changed event may report.
Databases == {"waltzdb", "otherdb"}

\* The masters a master-changed event may carry; NoMaster is event.master = None.
NoMaster == "none"
MasterNames == {"m1", "m2"}

\* event.master: the connection details of the named master for a database.
Master(m, database) ==
    IF m = "m1"
    THEN [host |-> "db1", port |-> "5433", dbname |-> database,
          user |-> "u1", password |-> "p1"]
    ELSE [host |-> "db2", port |-> "5433", dbname |-> database,
          user |-> "u2", password |-> "p2"]

Ev(kind, database, master) ==
    [kind |-> kind, database |-> database, master |-> master]

JoinedEvent == Ev("database_relation_joined", "", NoMaster)
BrokenEvent == Ev("database_relation_broken", "", NoMaster)
PebbleReadyEvent == Ev("waltz_pebble_ready", "", NoMaster)
ConfigChangedEvent == Ev("config_changed", "", NoMaster)
MasterChangedEvents ==
    { Ev("master_changed", d, m) : d \in Databases, m \in MasterNames \cup {NoMaster} }
NoEvent == Ev("none", "", NoMaster)

-----------------------------------------------------------------------------
(* Stored state *)

StateFields == {"db_host", "db_port", "db_name", "db_username", "db_password"}

\* _init_state: the five connection fields default to None; db_conn_str and
\* db_uri have no default and are not set.
InitState ==
    [db_host |-> None, db_port |-> None, db_name |-> None,
     db_username |-> None, db_password |-> None,
     db_conn_str |-> Unset, db_uri |-> Unset]

-----------------------------------------------------------------------------
(* _get_database_config *)

EmptyDict == [k \in {} |-> ""]

GetDatabaseConfigStaticFirst(st, cfg) ==
    IF \A k \in ConfigKeys : Truthy(cfg[k])
    THEN [host |-> cfg["db-host"], port |-> cfg["db-port"], dbname |-> cfg["db-name"],
          username |-> cfg["db-username"], password |-> cfg["db-password"]]
    ELSE IF Truthy(st.db_host)
    THEN [host |-> st.db_host, port |-> st.db_port, dbname |-> st.db_name,
          username |-> st.db_username, password |-> st.db_password]
    ELSE EmptyDict

GetDatabaseConfigAllMissing(st, cfg) ==
    IF Truthy(st.db_host)
    THEN [host |-> st.db_host, port |-> st.db_port, dbname |-> st.db_name,
          username |-> st.db_username, password |-> st.db_password]
    ELSE IF \A k \in ConfigKeys : ~Truthy(cfg[k])
    THEN EmptyDict
    ELSE [host |-> cfg["db-host"], port |-> cfg["db-port"], dbname |-> cfg["db-name"],
          username |-> cfg["db-username"], password |-> cfg["db-password"]]

GetDatabaseConfig(st, cfg) ==
    IF Truthy(st.db_host)
    THEN [host |-> st.db_host, port |-> st.db_port, dbname |-> st.db_name,
          username |-> st.db_username, password |-> st.db_password]
    ELSE IF \E k \in ConfigKeys : ~Truthy(cfg[k])
    THEN EmptyDict
    ELSE [host |-> cfg["db-host"], port |-> cfg["db-port"], dbname |-> cfg["db-name"],
          username |-> cfg["db-username"], password |-> cfg["db-password"]]

-----------------------------------------------------------------------------
(* _generate_workload_pebble_layer *)

GenerateWorkloadPebbleLayerUserAsName(dbc) ==
    [summary |-> "Waltz layer",
     description |-> "Pebble config layer for Waltz.",
     services |->
        ("waltz" :>
            [override |-> "replace",
             summary |-> "waltz",
             command |-> "/bin/sh -c 'docker-entrypoint.sh update run'",
             startup |-> "enabled",
             user |-> "waltz",
             environment |->
                [DB_HOST |-> dbc.host,
                 DB_PORT |-> dbc.port,
                 DB_NAME |-> dbc.dbname,
                 DB_USER |-> dbc.dbname,
                 DB_PASSWORD |-> dbc.password,
                 DB_SCHEME |-> "waltz",
                 WALTZ_FROM_EMAIL |-> "help@finos.org",
                 CHANGELOG_FILE |-> "/opt/waltz/liquibase/db.changelog-master.xml"]])]

GenerateWorkloadPebbleLayer(dbc) ==
    [summary |-> "Waltz layer",
     description |-> "Pebble config layer for Waltz.",
     services |->
        ("waltz" :>
            [override |-> "replace",
             summary |-> "waltz",
             command |-> "/bin/sh -c 'docker-entrypoint.sh update run'",
             startup |-> "enabled",
             user |-> "waltz",
             environment |->
                [DB_HOST |-> dbc.host,
                 DB_PORT |-> dbc.port,
                 DB_NAME |-> dbc.dbname,
                 DB_USER |-> dbc.username,
                 DB_PASSWORD |-> dbc.password,
                 DB_SCHEME |-> "waltz",
                 WALTZ_FROM_EMAIL |-> "help@finos.org",
                 CHANGELOG_FILE |-> "/opt/waltz/liquibase/db.changelog-master.xml"]])]

-----------------------------------------------------------------------------
(* The workload container *)

\* The plan of a container to which no layer was added.
EmptyPlan == [s \in {} |-> ""]

\* updated_services = plan.services != pebble_layer.services
UpdatedServicesAlways(p, layer) == TRUE

UpdatedServicesNever(p, layer) == FALSE

UpdatedServices(p, layer) == p /= layer.services

\* container.add_layer("waltz", layer, combine=True): the services of the
\* layer replace the services of the same name in the plan.
AddLayerKeepOld(p, layer) == p @@ layer.services

AddLayerIgnored(p, layer) == p

AddLayer(p, layer) == layer.services @@ p

-----------------------------------------------------------------------------
(* Unit status *)

UnknownStatus == [name |-> "unknown", message |-> ""]
BlockedStatusAsWaiting(msg) == [name |-> "waiting", message |-> msg]
BlockedStatus(msg) == [name |-> "blocked", message |-> msg]
WaitingStatus(msg) == [name |-> "waiting", message |-> msg]
ActiveStatusAsWaiting == [name |-> "waiting", message |-> ""]
ActiveStatus == [name |-> "active", message |-> ""]

-----------------------------------------------------------------------------
(* _rebuild_waltz_pebble_layer *)

\* The calls a cycle makes when the plan has to be updated.
ApplyCalls == <<"can_connect", "get_plan", "add_layer", "restart">>

\* event.defer(): the event joins the events awaiting redelivery.
DeferEventDropped(dq, event) == dq

DeferEvent(dq, event) == dq \cup {event}

\* One run of _rebuild_waltz_pebble_layer for the event, reading the stored
\* state st and the configuration cfg; dq is the set of deferred events
\* without the one being handled.
RebuildWaltzPebbleLayer(event, st, cfg, dq) ==
    LET dbc == GetDatabaseConfig(st, cfg)
        layer == GenerateWorkloadPebbleLayer(dbc)
    IN  /\ db_config' = dbc
        /\ IF dbc = EmptyDict
           THEN /\ status' = BlockedStatus("Waiting for database configuration.")
                /\ plan' = plan
                /\ deferred' = dq
                /\ calls' = <<>>
           ELSE IF ~can_connect
           THEN /\ status' = WaitingStatus("Waiting for Pebble to be ready")
                /\ plan' = plan
                /\ deferred' = DeferEvent(dq, event)
                /\ calls' = <<"can_connect", "defer">>
           ELSE IF UpdatedServices(plan, layer)
           THEN /\ plan' = AddLayer(plan, layer)
                /\ calls' = ApplyCalls
                /\ deferred' = dq
                /\ status' = ActiveStatus
           ELSE /\ plan' = plan
                /\ calls' = <<"can_connect", "get_plan">>
                /\ deferred' = dq
                /\ status' = ActiveStatus

-----------------------------------------------------------------------------
(* Event handlers *)

\* The database name the relation-joined handler requests.
RequestedDatabaseHost(cfg) == cfg["db-host"]

RequestedDatabase(cfg) == cfg["db-name"]

\* _on_database_relation_joined
OnDatabaseRelationJoined(event, dq) ==
    /\ requested' = RequestedDatabase(config)
    /\ deferred' = dq
    /\ calls' = <<>>
    /\ lastEvent' = event
    /\ UNCHANGED <<state, config, status, plan, can_connect, db_config>>

\* The stored state after _on_database_relation_broken's two assignments.
BrokenState(st) == [st EXCEPT !.db_conn_str = None, !.db_uri = None]

\* _on_database_relation_broken
OnDatabaseRelationBroken(event, dq) ==
    /\ state' = BrokenState(state)
    /\ RebuildWaltzPebbleLayer(event, state', config, dq)
    /\ lastEvent' = event
    /\ UNCHANGED <<config, can_connect, requested>>

\* The stored state after _on_master_changed's assignments, for an event
\* whose database is the configured one.
MasterChangedStateKeepPassword(st, event) ==
    IF event.master = NoMaster
    THEN [st EXCEPT !.db_host = None, !.db_port = None, !.db_name = None,
                    !.db_username = None]
    ELSE LET m == Master(event.master, event.database)
         IN  [st EXCEPT !.db_host = m.host, !.db_port = m.port, !.db_name = m.dbname,
                        !.db_username = m.user, !.db_password = m.password]

MasterChangedStateUserAsName(st, event) ==
    IF event.master = NoMaster
    THEN [st EXCEPT !.db_host = None, !.db_port = None, !.db_name = None,
                    !.db_username = None, !.db_password = None]
    ELSE LET m == Master(event.master, event.database)
         IN  [st EXCEPT !.db_host = m.host, !.db_port = m.port, !.db_name = m.dbname,
                        !.db_username = m.dbname, !.db_password = m.password]

MasterChangedStateNoClear(st, event) ==
    IF event.master = NoMaster
    THEN st
    ELSE LET m == Master(event.master, event.database)
         IN  [st EXCEPT !.db_host = m.host, !.db_port = m.port, !.db_name = m.dbname,
                        !.db_username = m.user, !.db_password = m.password]

MasterChangedState(st, event) ==
    IF event.master = NoMaster
    THEN [st EXCEPT !.db_host = None, !.db_port = None, !.db_name = None,
                    !.db_username = None, !.db_password = None]
    ELSE LET m == Master(event.master, event.database)
         IN  [st EXCEPT !.db_host = m.host, !.db_port = m.port, !.db_name = m.dbname,
                        !.db_username = m.user, !.db_password = m.password]

\* The check that the event is not for the requested database.
IrrelevantDatabaseNever(event, cfg) == FALSE

IrrelevantDatabase(event, cfg) == event.database /= cfg["db-name"]

\* _on_master_changed
OnMasterChanged(event, dq) ==
    IF IrrelevantDatabase(event, config)
    THEN /\ deferred' = dq
         /\ calls' = <<>>
         /\ lastEvent' = event
         /\ UNCHANGED <<state, config, status, plan, can_connect, requested, db_config>>
    ELSE /\ state' = MasterChangedState(state, event)
         /\ RebuildWaltzPebbleLayer(event, state', config, dq)
         /\ lastEvent' = event
         /\ UNCHANGED <<config, can_connect, requested>>

\* _on_waltz_pebble_ready
OnWaltzPebbleReadyResets(event, dq) ==
    /\ state' = InitState
    /\ RebuildWaltzPebbleLayer(event, state', config, dq)
    /\ lastEvent' = event
    /\ UNCHANGED <<config, can_connect, requested>>

OnWaltzPebbleReady(event, dq) ==
    /\ RebuildWaltzPebbleLayer(event, state, config, dq)
    /\ lastEvent' = event
    /\ UNCHANGED <<state, config, can_connect, requested>>

\* _on_config_changed, with cfg the configuration in force when it runs
OnConfigChanged(event, cfg, dq) ==
    /\ config' = cfg
    /\ RebuildWaltzPebbleLayer(event, state, cfg, dq)
    /\ lastEvent' = event
    /\ UNCHANGED <<state, can_connect, requested>>

\* The observers registered in __init__: the handler that runs for an event.
Dispatch(event, dq) ==
    CASE event.kind = "database_relation_joined" -> OnDatabaseRelationJoined(event, dq)
      [] event.kind = "database_relation_broken" -> OnDatabaseRelationBroken(event, dq)
      [] event.kind = "master_changed" -> OnMasterChanged(event, dq)
      [] event.kind = "waltz_pebble_ready" -> OnWaltzPebbleReady(event, dq)
      [] event.kind = "config_changed" -> OnConfigChanged(event, config, dq)

-----------------------------------------------------------------------------
(* The events the host delivers *)

\* No more than MaxDeferred events wait for redelivery.
WithinBound == Cardinality(deferred') <= MaxDeferred

RelationJoined == Dispatch(JoinedEvent, deferred) /\ WithinBound

RelationBroken == Dispatch(BrokenEvent, deferred) /\ WithinBound

MasterChanged == \E e \in MasterChangedEvents : Dispatch(e, deferred) /\ WithinBound

PebbleReady == Dispatch(PebbleReadyEvent, deferred) /\ WithinBound

\* The operator sets the configuration and config-changed is emitted.
UpdateConfig ==
    \E cfg \in StaticConfigs :
        OnConfigChanged(ConfigChangedEvent, cfg, deferred) /\ WithinBound

\* A deferred event is emitted again, with the data it was emitted with.
Redeliver == \E e \in deferred : Dispatch(e, deferred \ {e})

\* The Pebble server of the workload container becomes reachable, or stops being so.
PebbleUp == /\ ~can_connect
            /\ can_connect' = TRUE
            /\ UNCHANGED <<state, config, status, plan, deferred, requested,
                           db_config, calls, lastEvent>>

PebbleDown == /\ can_connect
              /\ can_connect' = FALSE
              /\ UNCHANGED <<state, config, status, plan, deferred, requested,
                             db_config, calls, lastEvent>>

Init ==
    /\ state = InitState
    /\ config \in StaticConfigs
    /\ status = UnknownStatus
    /\ plan = EmptyPlan
    /\ can_connect \in BOOLEAN
    /\ deferred = {}
    /\ requested = None
    /\ db_config = EmptyDict
    /\ calls = <<>>
    /\ lastEvent = NoEvent

Next ==
    \/ RelationJoined
    \/ RelationBroken
    \/ MasterChanged
    \/ PebbleReady
    \/ UpdateConfig
    \/ Redeliver
    \/ PebbleUp
    \/ PebbleDown

Spec == Init /\ [][Next]_vars

\* The host redelivers deferred events: a deferred event does not wait forever.
SpecLive == Spec /\ WF_vars(Redeliver)

-----------------------------------------------------------------------------
(* The resolver on its own: _get_database_config applied to every stored    *)
(* state a master can leave behind and every static configuration.          *)

ResolveEvent == Ev("resolve", "", NoMaster)

\* The stored states: the initial one, and every fully populated one.
PersistedStates ==
    {InitState} \cup
    { [InitState EXCEPT !.db_host = h, !.db_port = "5433", !.db_name = n,
                        !.db_username = u, !.db_password = w] :
        <<h, n, u, w>> \in {"db1", "db2"} \X Databases \X {"u1", "u2"} \X {"p1", "p2"} }

InitResolve ==
    /\ state \in PersistedStates
    /\ config \in AllStaticConfigs
    /\ status = UnknownStatus
    /\ plan = EmptyPlan
    /\ can_connect = TRUE
    /\ deferred = {}
    /\ requested = None
    /\ db_config = EmptyDict
    /\ calls = <<>>
    /\ lastEvent = NoEvent

Resolve ==
    /\ lastEvent = NoEvent
    /\ db_config' = GetDatabaseConfig(state, config)
    /\ lastEvent' = ResolveEvent
    /\ UNCHANGED <<state, config, status, plan, can_connect, deferred, requested, calls>>

NextResolve == Resolve

SpecResolve == InitResolve /\ [][NextResolve]_vars

-----------------------------------------------------------------------------
(* The builder on its own: _generate_workload_pebble_layer applied to every *)
(* effective configuration the resolver can return.                         *)

BuildEvent == Ev("build", "", NoMaster)

\* The effective configurations: static values and masters' values.
EffectiveConfigs ==
    { [host |-> h, port |-> p, dbname |-> n, username |-> u, password |-> w] :
        <<h, p, n, u, w>> \in {"foo.lish", "db1", "db2"} \X {"5432", "5433"} \X Databases
                                \X {"u", "u1", "u2"} \X {"p", "p1", "p2"} }

InitBuild ==
    /\ state = InitState
    /\ config \in {cfg \in StaticConfigs : \A k \in ConfigKeys : Truthy(cfg[k])}
    /\ status = UnknownStatus
    /\ plan = EmptyPlan
    /\ can_connect = TRUE
    /\ deferred = {}
    /\ requested = None
    /\ db_config \in EffectiveConfigs
    /\ calls = <<>>
    /\ lastEvent = NoEvent

Build ==
    /\ lastEvent = NoEvent
    /\ plan' = GenerateWorkloadPebbleLayer(db_config).services
    /\ lastEvent' = BuildEvent
    /\ UNCHANGED <<state, config, status, can_connect, deferred, requested,
                   db_config, calls>>

NextBuild == Build

SpecBuild == InitBuild /\ [][NextBuild]_vars

-----------------------------------------------------------------------------
(* Vocabulary of the properties *)

Range(s) == { s[i] : i \in DOMAIN s }

AllPresent(st) == \A f \in StateFields : st[f] /= None
AllAbsent(st) == \A f \in StateFields : st[f] = None

StaticComplete(cfg) == \A k \in ConfigKeys : cfg[k] /= ""

\* The five values of a stored state and of a static configuration, as an
\* effective configuration.
PersistedValues(st) ==
    [host |-> st.db_host, port |-> st.db_port, dbname |-> st.db_name,
     username |-> st.db_username, password |-> st.db_password]

StaticValues(cfg) ==
    [host |-> cfg["db-host"], port |-> cfg["db-port"], dbname |-> cfg["db-name"],
     username |-> cfg["db-username"], password |-> cfg["db-password"]]

\* The five DB_* entries an environment carries for an effective configuration.
CarriesDb(env, c) ==
    /\ env.DB_HOST = c.host
    /\ env.DB_PORT = c.port
    /\ env.DB_NAME = c.dbname
    /\ env.DB_USER = c.username
    /\ env.DB_PASSWORD = c.password

AllEvents ==
    {JoinedEvent, BrokenEvent, PebbleReadyEvent, ConfigChangedEvent} \cup MasterChangedEvents

\* This step is the handling of event e, delivered for the first time or again.
Handled(e) ==
    \/ /\ e.kind /= "config_changed"
       /\ Dispatch(e, deferred)
    \/ /\ e.kind = "config_changed"
       /\ OnConfigChanged(e, config', deferred)
    \/ /\ e \in deferred
       /\ Dispatch(e, deferred \ {e})

\* The handler of e runs the reconcile cycle.
Reconciles(e) ==
    \/ e.kind \in {"database_relation_broken", "waltz_pebble_ready", "config_changed"}
    \/ e.kind = "master_changed" /\ e.database = config["db-name"]

\* This step is a reconcile cycle: the handling of an event (every handler
\* records its event in lastEvent) whose handler runs the cycle.
CycleStep ==
    /\ can_connect' = can_connect
    /\ lastEvent' \in AllEvents
    /\ Reconciles(lastEvent')
    /\ Handled(lastEvent')

\* The spec the cycle of this step builds: the services of the layer generated
\* from the configuration resolved after the handler's writes.
Resolved == GetDatabaseConfig(state', config')
Desired == GenerateWorkloadPebbleLayer(Resolved).services

-----------------------------------------------------------------------------
(* Properties *)

\* C1: a reconcile cycle that finds the supervisor reachable and the plan
\* equal to the spec built from the resolved configuration adds no layer and
\* restarts nothing; and a cycle that follows a restarting cycle with the
\* stored state and the configuration unchanged does not restart again.
C1_Idempotent ==
    [][ /\ (CycleStep /\ can_connect /\ Resolved /= EmptyDict /\ plan = Desired)
            => /\ "add_layer" \notin Range(calls')
               /\ "restart" \notin Range(calls')
               /\ plan' = plan
        /\ (CycleStep /\ can_connect /\ state' = state /\ config' = config
              /\ "restart" \in Range(calls))
            => "restart" \notin Range(calls') ]_vars

C1_Witness ==
    /\ calls = <<"can_connect", "get_plan">>
    /\ status.name = "active"
    /\ plan /= EmptyPlan

C3_Waiting ==
    [][ (CycleStep /\ (AllPresent(state') \/ StaticComplete(config')) /\ ~can_connect)
            => /\ status' = [name |-> "waiting",
                             message |-> "Waiting for Pebble to be ready"]
               /\ lastEvent' \in deferred'
               /\ plan' = plan
               /\ "add_layer" \notin Range(calls')
               /\ "restart" \notin Range(calls') ]_vars

C3_Witness ==
    /\ status = [name |-> "waiting", message |-> "Waiting for Pebble to be ready"]
    /\ lastEvent \in deferred
    /\ ~can_connect
    /\ calls = <<"can_connect", "defer">>

C5_BrokenClears ==
    [][ (lastEvent' = BrokenEvent /\ Handled(BrokenEvent)) => AllAbsent(state') ]_vars

\* C6: the cycle run by a relation-broken event that follows a master's
\* credentials resolves from the static configuration only: Blocked when a
\* static option is empty, otherwise the applied plan carries the static values.
C6_BrokenFallsBack ==
    [][ (lastEvent' = BrokenEvent /\ Handled(BrokenEvent) /\ AllPresent(state))
            => IF ~StaticComplete(config)
               THEN status'.name = "blocked"
               ELSE can_connect =>
                      CarriesDb(plan'["waltz"].environment, StaticValues(config)) ]_vars

\* C7: with all five fields of the stored state set, the resolver returns
\* exactly those five values, whatever the static configuration.
C7_Precedence ==
    (lastEvent = ResolveEvent /\ AllPresent(state))
        => db_config = PersistedValues(state)

C7_Witness ==
    /\ lastEvent = ResolveEvent
    /\ AllPresent(state)
    /\ StaticComplete(config)
    /\ db_config = PersistedValues(state)
    /\ db_config /= StaticValues(config)

\* C8: with the stored state empty, the resolver returns the empty result
\* exactly when a static option is empty, and otherwise the five static values.
C8_Fallback ==
    (lastEvent = ResolveEvent /\ AllAbsent(state))
        => /\ (db_config = EmptyDict) <=> ~StaticComplete(config)
           /\ db_config /= EmptyDict => db_config = StaticValues(config)

C8_Witness ==
    /\ lastEvent = ResolveEvent
    /\ AllAbsent(state)
    /\ config["db-host"] = ""
    /\ config["db-port"] /= ""
    /\ db_config = EmptyDict

\* C9: the stored connection state has all five fields present or all five absent.
C9_Atomic == AllPresent(state) \/ AllAbsent(state)

C9_Witness ==
    /\ lastEvent.kind = "master_changed"
    /\ lastEvent.master = NoMaster
    /\ lastEvent.database = config["db-name"]
    /\ AllAbsent(state)
    /\ state.db_conn_str = None

\* C10: a master-changed event for the configured database that carries a
\* master sets the stored state to the master's five values; with the
\* supervisor reachable the plan then carries them and the status is Active.
C10_MasterApplied ==
    [][ LET e == lastEvent' IN
          (e \in MasterChangedEvents /\ e.database = config["db-name"]
              /\ e.master /= NoMaster /\ Handled(e))
            => LET m == Master(e.master, e.database)
                   c == [host |-> m.host, port |-> m.port, dbname |-> m.dbname,
                         username |-> m.user, password |-> m.password]
               IN  /\ PersistedValues(state') = c
                   /\ can_connect =>
                        /\ CarriesDb(plan'["waltz"].environment, c)
                        /\ status' = [name |-> "active", message |-> ""] ]_vars

C10_Witness ==
    /\ lastEvent.kind = "master_changed"
    /\ lastEvent.master = "m2"
    /\ StaticComplete(config)
    /\ status.name = "active"
    /\ "waltz" \in DOMAIN plan
    /\ plan["waltz"].environment.DB_HOST = "db2"

\* C11: a master-changed event for a database other than the configured one
\* changes nothing: the stored state, the status, the plan and the resolved
\* configuration stay, the handler makes no call (no restart, no defer), and
\* no event joins or leaves the deferred ones except the handled one when it
\* was a redelivery; this with and without a master.
C11_IrrelevantIgnored ==
    [][ LET e == lastEvent' IN
          (e \in MasterChangedEvents /\ e.database /= config["db-name"] /\ Handled(e))
            => /\ state' = state
               /\ config' = config
               /\ status' = status
               /\ plan' = plan
               /\ requested' = requested
               /\ db_config' = db_config
               /\ calls' = <<>>
               /\ deferred' \subseteq deferred
               /\ deferred \ {e} \subseteq deferred' ]_vars

C11_Witness ==
    /\ lastEvent.kind = "master_changed"
    /\ lastEvent.database = "otherdb"
    /\ lastEvent.master = "m1"
    /\ config["db-name"] = "waltzdb"
    /\ AllAbsent(state)
    /\ status.name = "blocked"
    /\ calls = <<>>

\* C12: a master-changed event for the configured database that carries no
\* master leaves the five stored fields absent, and its cycle resolves from
\* the static configuration only: nothing and Blocked when a static option is
\* empty, the five static values otherwise.
C12_NoMasterClears ==
    [][ LET e == lastEvent' IN
          (e \in MasterChangedEvents /\ e.database = config["db-name"]
              /\ e.master = NoMaster /\ Handled(e))
            => /\ AllAbsent(state')
               /\ IF StaticComplete(config)
                  THEN db_config' = StaticValues(config)
                  ELSE /\ db_config' = EmptyDict
                       /\ status'.name = "blocked" ]_vars

C12_Witness ==
    /\ lastEvent.kind = "master_changed"
    /\ lastEvent.master = NoMaster
    /\ lastEvent.database = config["db-name"]
    /\ AllAbsent(state)
    /\ ~StaticComplete(config)
    /\ status.name = "blocked"
    /\ "waltz" \in DOMAIN plan
    /\ plan["waltz"].environment.DB_HOST \in {"db1", "db2"}

\* C13: the relation-joined handler sets the requested database to the
\* configured db-name and changes nothing else: the stored state, the status,
\* the plan and the deferred events stay and no cycle runs.
C13_JoinedOnlyRequests ==
    [][ (lastEvent' = JoinedEvent /\ Handled(JoinedEvent))
            => /\ requested' = config["db-name"]
               /\ state' = state
               /\ config' = config
               /\ status' = status
               /\ plan' = plan
               /\ db_config' = db_config
               /\ deferred' = deferred
               /\ calls' = <<>> ]_vars

C13_Witness ==
    /\ lastEvent = JoinedEvent
    /\ requested = "waltzdb"
    /\ config["db-name"] = "waltzdb"
    /\ status.name = "active"

\* C14: once a cycle has ended Waiting, if from then on a configuration stays
\* available and the supervisor comes to stay reachable, and the host keeps
\* redelivering deferred events, the desired spec is eventually applied with
\* the status Active; and an event leaves the deferred ones only by being
\* redelivered.
InSync ==
    /\ status = [name |-> "active", message |-> ""]
    /\ GetDatabaseConfig(state, config) /= EmptyDict
    /\ plan = GenerateWorkloadPebbleLayer(GetDatabaseConfig(state, config)).services

ConfigAvailable == AllPresent(state) \/ StaticComplete(config)

C14_RecoversFromWaiting ==
    /\ [](status.name = "waiting"
            => (([]ConfigAvailable /\ <>[]can_connect) => <>InSync))
    /\ [][ deferred \subseteq deferred'
            \/ /\ lastEvent' \in deferred
               /\ deferred \ deferred' = {lastEvent'}
               /\ Dispatch(lastEvent', deferred \ {lastEvent'}) ]_vars

C14_Witness ==
    /\ status = [name |-> "waiting", message |-> "Waiting for Pebble to be ready"]
    /\ lastEvent \in deferred
    /\ can_connect
    /\ ConfigAvailable
    /\ plan = EmptyPlan

\* C15: handling a pebble-ready or a config-changed event leaves the stored
\* state as it was, whatever the outcome of the cycle; the five fields change
\* only in a master-changed or relation-broken step, and there the cycle
\* leaves them as the handler wrote them: a master's five values, or absent.
C15_OnlyAdapterWrites ==
    [][ /\ (lastEvent'.kind \in {"waltz_pebble_ready", "config_changed"}
              /\ Handled(lastEvent'))
            => state' = state
        /\ PersistedValues(state') /= PersistedValues(state)
            => /\ lastEvent'.kind \in {"master_changed", "database_relation_broken"}
               /\ Handled(lastEvent')
               /\ \/ AllAbsent(state')
                  \/ \E mm \in MasterNames :
                       LET m == Master(mm, lastEvent'.database)
                       IN  PersistedValues(state') =
                             [host |-> m.host, port |-> m.port, dbname |-> m.dbname,
                              username |-> m.user, password |-> m.password] ]_vars

C15_Witness ==
    /\ lastEvent.kind = "config_changed"
    /\ AllPresent(state)
    /\ state.db_host = "db1"
    /\ status.name = "active"
    /\ calls = <<"can_connect", "get_plan">>
    /\ ~StaticComplete(config)

\* C16: a config-changed event that leaves the five static options set makes
\* the handler attempt a connection to the configured database, and the status
\* is Active only after such an attempt succeeded and the connection was closed.
C16_DatabaseGatesActive ==
    [][ (lastEvent' = ConfigChangedEvent /\ Handled(ConfigChangedEvent)
              /\ StaticComplete(config'))
            => /\ "psycopg2.connect" \in Range(calls')
               /\ status'.name = "active" => "close" \in Range(calls') ]_vars

\* C17: the layer built from an effective configuration has the single
\* service "waltz", whose environment has exactly eight entries: the five
\* DB_* entries equal to the configuration's fields and the three constants;
\* a configuration that differs in any field builds a different spec.
C17_EnvMapping ==
    lastEvent = BuildEvent
        => /\ DOMAIN plan = {"waltz"}
           /\ LET env == plan["waltz"].environment
              IN  /\ DOMAIN env = {"DB_HOST", "DB_PORT", "DB_NAME", "DB_USER",
                                   "DB_PASSWORD", "DB_SCHEME", "WALTZ_FROM_EMAIL",
                                   "CHANGELOG_FILE"}
                  /\ Cardinality(DOMAIN env) = 8
                  /\ env.DB_HOST = db_config.host
                  /\ env.DB_PORT = db_config.port
                  /\ env.DB_NAME = db_config.dbname
                  /\ env.DB_USER = db_config.username
                  /\ env.DB_PASSWORD = db_config.password
                  /\ env.DB_SCHEME = "waltz"
                  /\ env.WALTZ_FROM_EMAIL = "help@finos.org"
                  /\ env.CHANGELOG_FILE = "/opt/waltz/liquibase/db.changelog-master.xml"
           /\ \A c \in EffectiveConfigs :
                c /= db_config => GenerateWorkloadPebbleLayer(c).services /= plan

C17_Witness ==
    /\ lastEvent = BuildEvent
    /\ db_config = [host |-> "db2", port |-> "5433", dbname |-> "waltzdb",
                    username |-> "u2", password |-> "p2"]
    /\ plan["waltz"].environment.DB_USER = "u2"
    /\ plan["waltz"].environment.DB_SCHEME = "waltz"

\* C18: between event handlings, a unit whose status is Active has a
\* configuration available, and the "waltz" service of the plan is the one
\* built from the configuration resolved from the current stored state and
\* static configuration.
C18_ActiveInSync ==
    status.name = "active"
        => /\ (Truthy(state.db_host) \/ StaticComplete(config))
           /\ "waltz" \in DOMAIN plan
           /\ plan["waltz"] =
                GenerateWorkloadPebbleLayer(
                    IF Truthy(state.db_host)
                    THEN PersistedValues(state)
                    ELSE StaticValues(config)).services["waltz"]

C18_Witness ==
    /\ status.name = "active"
    /\ ~can_connect
    /\ deferred /= {}
    /\ lastEvent.kind = "master_changed"
    /\ lastEvent.database /= config["db-name"]
    /\ AllPresent(state)
    /\ ~StaticComplete(config)

\* C19: between event handlings, a unit whose status is Waiting has at least
\* one deferred event awaiting redelivery; so also after a deferred
\* master-changed event was redelivered and dropped for naming another
\* database than the configured one.
C19_WaitingHasRetry ==
    status.name = "waiting" => deferred /= {}

C19_Witness ==
    /\ status.name = "waiting"
    /\ lastEvent.kind = "master_changed"
    /\ lastEvent.database = "waltzdb"
    /\ config["db-name"] = ""
    /\ lastEvent \notin deferred
    /\ calls = <<>>
    /\ deferred = {ConfigChangedEvent}

\* C20: the redelivery of a deferred master-changed event leaves the five
\* stored fields as they are: they already hold the outcome of the matching
\* master-changed or relation-broken event delivered last for the first time,
\* which is the redelivered event itself or a newer one.
C20_NoStaleOverwrite ==
    [][ LET e == lastEvent' IN
          (e \in MasterChangedEvents /\ e \in deferred
              /\ Dispatch(e, deferred \ {e}) /\ ~Dispatch(e, deferred))
            => PersistedValues(state') = PersistedValues(state) ]_vars

====
